---------------------------- MODULE Spec2Model ----------------------------
(***************************************************************************)
(* The execution engine of sup: Stackup.Run (internal/sup/sup.go) driving   *)
(* a set of clients (internal/sup/localhost.go and the SSH client) through  *)
(* connect-all, then command by command and task by task.                   *)
(*                                                                          *)
(* Threads of control are modelled at the granularity of their blocking     *)
(* points: the run loop (pc), one connector per host, and per task the      *)
(* stdout/stderr pumps, the stdin pump, the signal forwarder and the        *)
(* waiters.  The environment is the client processes (which exit when they  *)
(* please), the operator (interrupts, end of input) and the outcome of      *)
(* connects and starts.                                                     *)
(*                                                                          *)
(* Spec is the engine with every goroutine and the whole environment.       *)
(* RunSpec, SignalSpec and LiveSpec restrict the environment (no input and  *)
(* no interrupt; interrupts only; input only, with fair scheduling).        *)
(* ClientSpec, PrefixSpec and ArgsSpec exercise LocalhostClient.Run/Wait,   *)
(* the prefix padding and parseArgs (cmd/sup/main.go) on their own.         *)
(***************************************************************************)
EXTENDS Integers, Sequences, FiniteSets

(* ------------------------------ bounds --------------------------------- *)

\* Number of hosts of the network (len(net.Hosts)).
NumHosts == 2

\* Largest number of commands handed to Stackup.Run.
NumCmds == 2

\* Number of interrupts the operator sends during one run.
MaxInterrupts == 2

\* Largest printable length of a client's prefix, and largest length of the
\* colour escape in front of it.
MaxLabel == 4

MaxEsc == 2

\* Largest number of COMMAND arguments, and of commands in a target.
MaxArgs == 2

MaxTarget == 2

(* --------------------------- program constants ------------------------- *)

\* The exit status the waiter does not pass on (sup.go:251).
SuppressedStatus == 15

\* Capacity of the trap channel, make(chan os.Signal, 1) (sup.go:208).
TrapCap == 1

(* ------------------------------ domains -------------------------------- *)

Hosts == 1..NumHosts

\* Exit statuses a client process may end with: success, an ordinary
\* failure, and the status of a process terminated by the forwarded signal.
ExitStatuses == {0, 7, SuppressedStatus}

Nil == [type |-> "nil", status |-> 0]

Range(s) == {s[i] : i \in 1..Len(s)}

Min(a, b) == IF a < b THEN a ELSE b

VARIABLES
    pc,          \* position of the run loop (the thread executing Stackup.Run)
    exitCode,    \* exit status of the controller process, -1 while it runs
    exitErr,     \* the Wait error a waiter terminated the process for
    failed,      \* some client's Wait has returned a failing exit
    nCmds,       \* len(commands)
    bastion,     \* "unset", "ready" (none asked for, or connected), "failed"
    launched,    \* number of connectors launched by the loop at sup.go:62
    conn,        \* per host: connector "idle", "running", "ok", "failed"
    kind,        \* per host: "unset", "local" (LocalhostClient) or "ssh"
    wg,          \* the WaitGroup of the connect phase (sup.go:57)
    clientCh,    \* clients sent to clientCh, in the order they were sent
    errCh,       \* number of errors sent to errCh
    clients,     \* the client list drained from clientCh (sup.go:111-120)
    closeCount,  \* per host: number of Close calls on its client
    cmdIdx,      \* number of commands taken from the list so far
    tasks,       \* tasks of the current command not yet finished
    input,       \* task.Input != nil for the tasks of the current command
    startIdx,    \* clients of the current task passed by the loop at sup.go:144
    writers,     \* stdin writers recorded for the current task (sup.go:188)
    taskWg,      \* the WaitGroup of the current task (sup.go:140)
    running,     \* per host: the client's running flag
    proc,        \* per host: the client's process "none", "running", "exited"
    stdin,       \* per host: the client's stdin endpoint "nil", "open", "closed"
    pumps,       \* live stdout/stderr pump goroutines; cur: of the current task
    waiters,     \* live waiter goroutines; cur: of the current task
    stdinPump,   \* the current task's stdin pump
    wcCalls,     \* clients the current task's stdin pump called WriteClose on
    orphanPumps, \* stdin pumps of earlier tasks still blocked in io.Copy
    stdinEOF,    \* the controller's standard input has reached EOF
    trap,        \* the current task's trap channel
    fwd,         \* the current task's signal forwarder: "none" or "recv"
    lateTraps,   \* closed traps of earlier tasks still holding a signal
    idleFwds,    \* forwarders of earlier tasks that have not yet returned
    lateSignals, \* Signal calls made by forwarders of earlier tasks
    interrupts,  \* interrupts sent by the operator so far
    ret,         \* a client's method called on its own: what it returned
    labels,      \* per host: what the client's Prefix() returns
    maxLen,      \* the widest printable prefix (sup.go:109-117)
    prefixes,    \* per host: the prefix of the client's lines (sup.go:150-155)
    conf,        \* the Supfile: names of its commands, its targets
    args,        \* the COMMAND arguments parseArgs has not yet looked at
    parsed,      \* the command list parseArgs has built, by command name
    parseErr     \* the name parseArgs failed for, "" while it has not

vars == <<pc, exitCode, exitErr, failed, nCmds, bastion, launched, conn, kind,
          wg, clientCh, errCh, clients, closeCount, cmdIdx, tasks, input,
          startIdx, writers, taskWg, running, proc, stdin, pumps, waiters,
          stdinPump, wcCalls, orphanPumps, stdinEOF, trap, fwd, lateTraps,
          idleFwds, lateSignals, interrupts, ret, labels, maxLen, prefixes,
          conf, args, parsed, parseErr>>

connVars == <<bastion, launched, conn, kind, wg, clientCh, errCh>>
loopVars == <<cmdIdx, tasks, input, startIdx, writers>>
clientVars == <<running, proc, stdin>>
sigVars == <<trap, fwd, lateTraps, idleFwds, lateSignals>>
envVars == <<stdinEOF, interrupts>>

\* The state of the operations that are exercised on their own, outside a
\* run of Stackup.Run.
prefixVars == <<labels, maxLen, prefixes>>
argVars == <<conf, args, parsed, parseErr>>
unitVars == <<ret, prefixVars, argVars>>

\* A trap channel: registered with signal.Notify or not, the signals it
\* holds, the interrupts that arrived while it was registered, and per host
\* the Signal calls its forwarder has made on the host's client.
NewTrap(on) ==
    [notify |-> on, buf |-> 0, caught |-> 0, sent |-> [h \in Hosts |-> 0]]

NoTrap == NewTrap(FALSE)

\* The controller process is running.
Alive == pc \notin {"done", "exited", "crashed", "killed"}

\* A string that may start with a colour escape, by its lengths: the
\* spaces in front, the escape, the printable rest.
Str(pad, esc, len) == [pad |-> pad, esc |-> esc, len |-> len]

\* No client method has been called on its own.
NoCall == ret = [op |-> "none", c |-> 0, err |-> Nil]

\* The prefixes are not looked at: every string is empty.
NoPrefix ==
    /\ labels = [h \in Hosts |-> Str(0, 0, 0)]
    /\ maxLen = 0
    /\ prefixes = [h \in Hosts |-> Str(0, 0, 0)]

\* parseArgs is not looked at: an empty Supfile and no argument.
NoArgs ==
    /\ conf = [commands |-> {}, targets |-> <<>>]
    /\ args = <<>>
    /\ parsed = <<>>
    /\ parseErr = ""

InitRun ==
    /\ pc = "begin"
    /\ exitCode = -1
    /\ exitErr = Nil
    /\ failed = FALSE
    /\ nCmds \in 0..NumCmds
    /\ bastion = "unset"
    /\ launched = 0
    /\ conn = [h \in Hosts |-> "idle"]
    /\ kind = [h \in Hosts |-> "unset"]
    /\ wg = 0
    /\ clientCh = <<>>
    /\ errCh = 0
    /\ clients = <<>>
    /\ closeCount = [h \in Hosts |-> 0]
    /\ cmdIdx = 0
    /\ tasks = <<>>
    /\ input = FALSE
    /\ startIdx = 0
    /\ writers = <<>>
    /\ taskWg = 0
    /\ running = [h \in Hosts |-> FALSE]
    /\ proc = [h \in Hosts |-> "none"]
    /\ stdin = [h \in Hosts |-> "nil"]
    /\ pumps = {}
    /\ waiters = {}
    /\ stdinPump = "none"
    /\ wcCalls = {}
    /\ orphanPumps = 0
    /\ stdinEOF = FALSE
    /\ trap = NoTrap
    /\ fwd = "none"
    /\ lateTraps = {}
    /\ idleFwds = 0
    /\ lateSignals = {}
    /\ interrupts = 0

Init == InitRun /\ NoCall /\ NoPrefix /\ NoArgs

(* --------------------------- leaving Stackup.Run ----------------------- *)

\* closeRemotes: Close is called on the SSH clients of the list only.
closeRemotes(cls) ==
    [h \in Hosts |-> IF h \in Range(cls) /\ kind[h] = "ssh"
                     THEN closeCount[h] + 1 ELSE closeCount[h]]

\* Stackup.Run returns: the deferred closeRemotes runs over the clients it
\* was registered with (none before sup.go:122), and main exits 1 on an
\* error and 0 otherwise.
Return(cls, err) ==
    /\ pc' = "done"
    /\ exitCode' = IF err THEN 1 ELSE 0
    /\ closeCount' = closeRemotes(cls)

(* ------------------------- Phase A: connect-all ------------------------ *)

\* sup.go:41-55: the empty command list, then the bastion.
Begin ==
    /\ pc = "begin"
    /\ IF nCmds = 0
       THEN Return(<<>>, TRUE) /\ UNCHANGED bastion
       ELSE \E b \in {"none", "connected", "failed"} :
              IF b = "failed"
              THEN Return(<<>>, TRUE) /\ bastion' = "failed"
              ELSE /\ pc' = "spawn"
                   /\ bastion' = "ready"
                   /\ UNCHANGED <<exitCode, closeCount>>
    /\ UNCHANGED <<exitErr, failed, nCmds, unitVars, launched, conn, kind, wg,
                   clientCh, errCh, clients, loopVars, taskWg, clientVars,
                   pumps, waiters, stdinPump, wcCalls, orphanPumps, sigVars,
                   envVars>>

\* sup.go:62-103: one iteration of the loop launching the connectors.
SpawnConnector ==
    /\ pc = "spawn"
    /\ launched < NumHosts
    /\ launched' = launched + 1
    /\ wg' = wg + 1
    /\ conn' = [conn EXCEPT ![launched + 1] = "running"]
    /\ UNCHANGED <<pc, exitCode, exitErr, failed, nCmds, unitVars, bastion,
                   kind, clientCh, errCh, clients, closeCount, loopVars,
                   taskWg, clientVars, pumps, waiters, stdinPump, wcCalls,
                   orphanPumps, sigVars, envVars>>

\* sup.go:65-102: the connector of host h builds the local or the SSH
\* client, connects it and sends the client or the error.
Connector(h) ==
    /\ Alive
    /\ conn[h] = "running"
    /\ \E k \in {"local", "ssh"}, ok \in BOOLEAN :
          /\ kind' = [kind EXCEPT ![h] = k]
          /\ IF ok
             THEN /\ clientCh' = Append(clientCh, h)
                  /\ conn' = [conn EXCEPT ![h] = "ok"]
                  /\ UNCHANGED errCh
             ELSE /\ errCh' = errCh + 1
                  /\ conn' = [conn EXCEPT ![h] = "failed"]
                  /\ UNCHANGED clientCh
    /\ wg' = wg - 1
    /\ UNCHANGED <<pc, exitCode, exitErr, failed, nCmds, unitVars, bastion,
                   launched, clients, closeCount, loopVars, taskWg,
                   clientVars, pumps, waiters, stdinPump, wcCalls,
                   orphanPumps, sigVars, envVars>>

\* sup.go:105-126: the join on the connectors, the drain of clientCh, the
\* registration of closeRemotes, and the first error of errCh.
ConnJoinWhen(joined, errs) ==
    /\ pc = "spawn"
    /\ launched = NumHosts
    /\ joined
    /\ clients' = clientCh
    /\ IF errs > 0
       THEN Return(clientCh, TRUE)
       ELSE pc' = "nextCmd" /\ UNCHANGED <<exitCode, closeCount>>
    /\ UNCHANGED <<exitErr, failed, nCmds, unitVars, connVars, loopVars,
                   taskWg, clientVars, pumps, waiters, stdinPump, wcCalls,
                   orphanPumps, sigVars, envVars>>

\* The run loop without wg.Wait() at sup.go:105.
ConnJoinNoWait == ConnJoinWhen(TRUE, errCh)

\* The run loop without the check of errCh at sup.go:124-126.
ConnJoinIgnoreErr == ConnJoinWhen(wg = 0, 0)

ConnJoin == ConnJoinWhen(wg = 0, errCh)

(* ----------------------------- task builder ---------------------------- *)

\* The commands of a run: once trims the clients to the first, serial = N
\* batches them by N (0: not set), stdin binds the task's Input.
Commands == [once : BOOLEAN, serial : 0..(NumHosts - 1), stdin : BOOLEAN]

RECURSIVE Chunks(_, _)
Chunks(s, n) ==
    IF s = <<>> THEN <<>>
    ELSE <<SubSeq(s, 1, Min(n, Len(s)))>>
            \o Chunks(SubSeq(s, Min(n, Len(s)) + 1, Len(s)), n)

\* The tasks of one command over the client list, each task given by its
\* Clients.
createTasks(cmd, cls) ==
    LET base == IF cmd.once /\ cls # <<>> THEN <<cls[1]>> ELSE cls
    IN  IF base = <<>> THEN <<>>
        ELSE IF cmd.serial > 0 THEN Chunks(base, cmd.serial)
        ELSE <<base>>

(* ------------------------------- clients -------------------------------- *)

\* What LocalhostClient.Wait returns for a process that ended with status s:
\* the *exec.ExitError of cmd.Wait, or nil.
LocalWait(s) ==
    IF s = 0 THEN Nil ELSE [type |-> "exec.ExitError", status |-> s]

\* What SSHClient.Wait returns: nil, an *ssh.ExitError carrying the status,
\* or an error without a status when the session ends without one.
SSHWait(s) ==
    IF s = 0 THEN Nil ELSE [type |-> "ssh.ExitError", status |-> s]

SSHWaitNoStatus == [type |-> "other", status |-> 0]

WaitResults(k) ==
    IF k = "local" THEN {LocalWait(s) : s \in ExitStatuses}
    ELSE {SSHWait(s) : s \in ExitStatuses} \cup {SSHWaitNoStatus}

\* localhost.go:39, 65 and 75: the errors of Run and of Wait that are not
\* exit results.
ErrAlreadyRunning == [type |-> "already running", status |-> 0]

ErrStart == [type |-> "start failed", status |-> 0]

ErrStopped == [type |-> "stopped", status |-> 0]

\* localhost.go:42-68: the ways Run ends on a client that is not running.
\* The process is started; StdoutPipe or StderrPipe fails; StdinPipe fails;
\* cmd.Start fails.
RunOutcomes == {"started", "nopipe", "nostdin", "nostart"}

\* The stdin endpoint Run leaves in c.stdin: the new pipe; the endpoint of
\* the task before, not yet replaced; the nil that StdinPipe returned with
\* its error; the new pipe, closed again by the failed Start.
StdinAfterRun(c, how) ==
    CASE how = "started" -> "open"
      [] how = "nopipe"  -> stdin[c]
      [] how = "nostdin" -> "nil"
      [] how = "nostart" -> "closed"

\* localhost.go:35-71: what Run does to the client of host c.  busy: the
\* test of the running flag at line 38.
RunIf(c, how, busy) ==
    IF busy
    THEN UNCHANGED clientVars
    ELSE /\ running' = [running EXCEPT ![c] = running[c] \/ how = "started"]
         /\ proc' = [proc EXCEPT ![c] =
                        IF how = "started" THEN "running" ELSE "none"]
         /\ stdin' = [stdin EXCEPT ![c] = StdinAfterRun(c, how)]

\* Run without the test of the running flag.
RunUnchecked(c, how) == RunIf(c, how, FALSE)

Run(c, how) == RunIf(c, how, running[c])

\* localhost.go:35-71: what Run returns.
RunError(c, how) ==
    IF running[c] THEN ErrAlreadyRunning
    ELSE IF how = "started" THEN Nil
    ELSE ErrStart

\* localhost.go:73-82: what Wait does to the client of host c when the
\* process has ended with the result r: the flag is cleared (clear), and
\* cmd.Wait has closed the pipes of the process, its stdin among them.
WaitIf(c, r, clear) ==
    IF ~running[c]
    THEN UNCHANGED clientVars
    ELSE /\ running' = [running EXCEPT ![c] = ~clear]
         /\ stdin' = [stdin EXCEPT ![c] = "closed"]
         /\ UNCHANGED proc

\* Wait that clears the running flag only when the process ended well.
WaitClearOnNil(c, r) == WaitIf(c, r, r = Nil)

\* Wait that leaves the running flag set.
WaitKeepRunning(c, r) == WaitIf(c, r, FALSE)

Wait(c, r) == WaitIf(c, r, TRUE)

\* localhost.go:73-82: what Wait returns.
WaitError(c, r) == IF ~running[c] THEN ErrStopped ELSE r

\* A client process ends.  Its stdout and stderr reach EOF with it.
ProcExit(c) ==
    /\ Alive
    /\ proc[c] = "running"
    /\ proc' = [proc EXCEPT ![c] = "exited"]
    /\ UNCHANGED <<pc, exitCode, exitErr, failed, nCmds, unitVars, connVars,
                   clients, closeCount, loopVars, taskWg, running, stdin,
                   pumps, waiters, stdinPump, wcCalls, orphanPumps, sigVars,
                   envVars>>

(* ---------------- Phase B: the run loop, task by task ------------------- *)

\* The loop at sup.go:137 moves to the first task of ts, or, with no task
\* left, back to the loop over the commands.
BeginTask(ts) ==
    /\ tasks' = ts
    /\ IF ts = <<>>
       THEN pc' = "nextCmd"
       ELSE pc' = "start"
    /\ startIdx' = 0
    /\ writers' = <<>>
    /\ taskWg' = 0

\* sup.go:129-134 and 274: the next command is translated into its tasks;
\* after the last command Stackup.Run returns nil.
NextCmdOf(cmds) ==
    /\ pc = "nextCmd"
    /\ IF cmdIdx = nCmds
       THEN /\ Return(clients, FALSE)
            /\ UNCHANGED <<loopVars, taskWg>>
       ELSE \E cmd \in cmds, ok \in BOOLEAN :
              IF ok
              THEN /\ cmdIdx' = cmdIdx + 1
                   /\ input' = cmd.stdin
                   /\ BeginTask(createTasks(cmd, clients))
                   /\ UNCHANGED <<exitCode, closeCount>>
              ELSE /\ Return(clients, TRUE)
                   /\ UNCHANGED <<loopVars, taskWg>>
    /\ UNCHANGED <<exitErr, failed, nCmds, unitVars, connVars, clients,
                   clientVars, pumps, waiters, stdinPump, wcCalls,
                   orphanPumps, sigVars, envVars>>

NextCmd == NextCmdOf(Commands)

\* The same over the commands that bind no Input.
NextCmdQuiet == NextCmdOf({cmd \in Commands : ~cmd.stdin})

\* sup.go:144-189: one iteration of the loop over task.Clients.  Run fails
\* on a client that is running (localhost.go:38-40) or whose process cannot
\* be started; otherwise the process runs, the two output pumps are launched
\* and the stdin writer is recorded.
StartClient ==
    /\ pc = "start"
    /\ LET c == tasks[1][startIdx + 1]
       IN  \E how \in RunOutcomes :
             /\ Run(c, how)
             /\ IF RunError(c, how) = Nil
                THEN /\ pumps' = pumps \cup
                           {[c |-> c, cur |-> TRUE, stream |-> s] :
                               s \in {"stdout", "stderr"}}
                     /\ taskWg' = taskWg + 2
                     /\ writers' = Append(writers, c)
                     /\ startIdx' = startIdx + 1
                     /\ pc' = IF startIdx + 1 = Len(tasks[1])
                              THEN "helpers" ELSE "start"
                     /\ UNCHANGED <<exitCode, closeCount>>
                ELSE /\ Return(clients, TRUE)
                     /\ UNCHANGED <<startIdx, writers, taskWg, pumps>>
    /\ UNCHANGED <<exitErr, failed, nCmds, unitVars, connVars, clients,
                   cmdIdx, tasks, input, waiters, stdinPump, wcCalls,
                   orphanPumps, sigVars, envVars>>

\* sup.go:191-226: the stdin pump is launched when the task has Input, the
\* trap is created and registered, and the signal forwarder is launched.
Helpers ==
    /\ pc = "helpers"
    /\ stdinPump' = IF input THEN "copying" ELSE "none"
    /\ UNCHANGED wcCalls
    /\ trap' = NewTrap(TRUE)
    /\ fwd' = "recv"
    /\ pc' = "ioJoin"
    /\ UNCHANGED <<exitCode, exitErr, failed, nCmds, unitVars, connVars,
                   clients, closeCount, loopVars, taskWg, clientVars, pumps,
                   waiters, orphanPumps, lateTraps, idleFwds, lateSignals,
                   envVars>>

\* sup.go:165-186: a stdout or stderr pump returns from io.Copy at the EOF
\* of its client's stream.
PumpFinish(p) ==
    /\ Alive
    /\ p \in pumps
    /\ proc[p.c] = "exited" \/ ~p.cur
    /\ pumps' = pumps \ {p}
    /\ taskWg' = IF p.cur THEN taskWg - 1 ELSE taskWg
    /\ UNCHANGED <<pc, exitCode, exitErr, failed, nCmds, unitVars, connVars,
                   clients, closeCount, loopVars, clientVars, waiters,
                   stdinPump, wcCalls, orphanPumps, sigVars, envVars>>

\* sup.go:229-263: the join on the output pumps, then one waiter per client
\* of the task.
IoJoinWhen(joined) ==
    /\ pc = "ioJoin"
    /\ joined
    /\ waiters' = waiters \cup
          {[c |-> c, cur |-> TRUE, st |-> "waiting", err |-> Nil] :
              c \in Range(tasks[1])}
    /\ taskWg' = Len(tasks[1])
    /\ pc' = "waitJoin"
    /\ UNCHANGED <<exitCode, exitErr, failed, nCmds, unitVars, connVars,
                   clients, closeCount, loopVars, clientVars, pumps,
                   stdinPump, wcCalls, orphanPumps, sigVars, envVars>>

\* The run loop without wg.Wait() at sup.go:229.
IoJoinNoWait == IoJoinWhen(TRUE)

IoJoin == IoJoinWhen(taskWg = 0)

\* An exit error that carries a status other than 0 and the suppressed one.
FailingExit(err) ==
    /\ err.type \in {"ssh.ExitError", "exec.ExitError"}
    /\ err.status \notin {0, SuppressedStatus}

\* sup.go:238 with localhost.go:73-82: Wait returns once the process has
\* ended, with its exit result, and clears the running flag (cmd.Wait also
\* closes the pipes of the process, its stdin among them); on a client that
\* is not running it returns an error at once.
WaiterWait(w) ==
    /\ Alive
    /\ w \in waiters
    /\ w.st = "waiting"
    /\ running[w.c] => proc[w.c] = "exited"
    /\ \E r \in WaitResults(kind[w.c]) :
          /\ Wait(w.c, r)
          /\ waiters' = (waiters \ {w}) \cup
                {[w EXCEPT !.st = "returned", !.err = WaitError(w.c, r)]}
          /\ failed' = (failed \/ FailingExit(WaitError(w.c, r)))
    /\ UNCHANGED <<pc, exitCode, exitErr, nCmds, unitVars, connVars, clients,
                   closeCount, loopVars, taskWg, pumps, stdinPump, wcCalls,
                   orphanPumps, sigVars, envVars>>

\* sup.go:251-260: the status the waiter hands to os.Exit for a Wait error.
ExitStatusFor(err) ==
    IF err.type = "ssh.ExitError" /\ err.status # SuppressedStatus
    THEN err.status
    ELSE 1

\* sup.go:236-261: the waiter ends (wg.Done) when Wait returned nil, and
\* ends the controller process with os.Exit when it returned an error.
WaiterFinishIf(w, ok) ==
    /\ Alive
    /\ w \in waiters
    /\ w.st = "returned"
    /\ IF ok
       THEN /\ waiters' = waiters \ {w}
            /\ taskWg' = IF w.cur THEN taskWg - 1 ELSE taskWg
            /\ UNCHANGED <<pc, exitCode, exitErr>>
       ELSE /\ pc' = "exited"
            /\ exitCode' = ExitStatusFor(w.err)
            /\ exitErr' = w.err
            /\ UNCHANGED <<waiters, taskWg>>
    /\ UNCHANGED <<failed, nCmds, unitVars, connVars, clients, closeCount,
                   loopVars, clientVars, pumps, stdinPump, wcCalls,
                   orphanPumps, sigVars, envVars>>

\* A waiter that reports the error of Wait and goes on without os.Exit.
WaiterFinishNoExit(w) == WaiterFinishIf(w, TRUE)

WaiterFinish(w) == WaiterFinishIf(w, w.err = Nil)

\* The goroutines of a task that is over are no longer of the current task.
Stale(gs) == {[g EXCEPT !.cur = FALSE] : g \in gs}

\* sup.go:266-270 and the loop heads: the join on the waiters, signal.Stop
\* and close(trap), then the next task or the next command.  The forwarder
\* and the stdin pump are not joined: a forwarder that has not returned and
\* a pump still copying live on.
WaitJoinWhen(joined) ==
    /\ pc = "waitJoin"
    /\ joined
    /\ trap' = NoTrap
    /\ fwd' = "none"
    /\ IF trap.buf > 0
       THEN /\ lateTraps' = lateTraps \cup
                  {[clients |-> tasks[1], cmd |-> cmdIdx]}
            /\ UNCHANGED idleFwds
       ELSE /\ idleFwds' = idleFwds + 1
            /\ UNCHANGED lateTraps
    /\ orphanPumps' = IF stdinPump = "copying"
                      THEN orphanPumps + 1 ELSE orphanPumps
    /\ stdinPump' = "none"
    /\ wcCalls' = {}
    /\ pumps' = Stale(pumps)
    /\ waiters' = Stale(waiters)
    /\ BeginTask(Tail(tasks))
    /\ UNCHANGED <<exitCode, exitErr, failed, nCmds, unitVars, connVars,
                   clients, closeCount, cmdIdx, input, clientVars,
                   lateSignals, envVars>>

\* The run loop without wg.Wait() at sup.go:266.
WaitJoinNoWait == WaitJoinWhen(TRUE)

WaitJoin == WaitJoinWhen(taskWg = 0)

(* ------------------------------ stdin pump ------------------------------ *)

RECURSIVE UpToNil(_)
\* The clients of cls up to and including the first whose stdin endpoint
\* was never set.
UpToNil(cls) ==
    IF cls = <<>> THEN <<>>
    ELSE IF stdin[Head(cls)] = "nil" THEN <<Head(cls)>>
    ELSE <<Head(cls)>> \o UpToNil(Tail(cls))

\* sup.go:201-203: the clients the loop over the run's client list calls
\* WriteClose on.
WriteCloseCalls == Range(UpToNil(clients))

\* sup.go:201-203 with localhost.go:109-111: WriteClose on every client of
\* the run's client list, one after the other.  Close on a stdin endpoint
\* that was never set is a nil dereference: the goroutine panics there and
\* the process dies with status 2.
WriteCloseAll ==
    /\ stdin' = [h \in Hosts |->
                    IF h \in WriteCloseCalls /\ stdin[h] # "nil"
                    THEN "closed" ELSE stdin[h]]
    /\ IF \E c \in WriteCloseCalls : stdin[c] = "nil"
       THEN pc' = "crashed" /\ exitCode' = 2
       ELSE UNCHANGED <<pc, exitCode>>

\* io.Copy into the recorded writers can fail once one of them has lost its
\* process or has been closed.
WriteFails == \E c \in Range(writers) : proc[c] = "exited" \/ stdin[c] = "closed"

\* sup.go:193-204: the stdin pump of the current task leaves io.Copy, at the
\* EOF of the input ("drained") or at a failed write ("failed"), and closes
\* the clients' stdin.
StdinPumpFinish ==
    /\ Alive
    /\ stdinPump = "copying"
    /\ \E how \in {"drained", "failed"} :
          /\ how = "drained" => stdinEOF
          /\ how = "failed" => WriteFails
          /\ stdinPump' = how
    /\ WriteCloseAll
    /\ wcCalls' = WriteCloseCalls
    /\ UNCHANGED <<exitErr, failed, nCmds, unitVars, connVars, clients,
                   closeCount, loopVars, taskWg, running, proc, pumps,
                   waiters, orphanPumps, sigVars, envVars>>

\* The same for the stdin pump of an earlier task: its writers are gone, so
\* its copy ends at the EOF of the input or at the next input it reads.
OrphanPumpFinish ==
    /\ Alive
    /\ orphanPumps > 0
    /\ orphanPumps' = orphanPumps - 1
    /\ WriteCloseAll
    /\ UNCHANGED <<exitErr, failed, nCmds, unitVars, connVars, clients,
                   closeCount, loopVars, taskWg, running, proc, pumps,
                   waiters, stdinPump, wcCalls, sigVars, envVars>>

\* The controller's standard input reaches EOF.  Only a stdin pump reads it.
InputEOF ==
    /\ Alive
    /\ ~stdinEOF
    /\ stdinPump = "copying" \/ orphanPumps > 0
    /\ stdinEOF' = TRUE
    /\ UNCHANGED <<pc, exitCode, exitErr, failed, nCmds, unitVars, connVars,
                   clients, closeCount, loopVars, taskWg, clientVars, pumps,
                   waiters, stdinPump, wcCalls, orphanPumps, sigVars,
                   interrupts>>

(* -------------------------------- signals ------------------------------- *)

\* The operator interrupts the controller.  signal.Notify (sup.go:210) sends
\* without blocking to the registered trap, dropping the signal when the
\* channel is full; with no trap registered the interrupt ends the process.
Interrupt ==
    /\ Alive
    /\ interrupts < MaxInterrupts
    /\ interrupts' = interrupts + 1
    /\ IF trap.notify
       THEN /\ trap' = [trap EXCEPT
                          !.caught = trap.caught + 1,
                          !.buf = IF trap.buf < TrapCap
                                  THEN trap.buf + 1 ELSE trap.buf]
            /\ UNCHANGED <<pc, exitCode>>
       ELSE /\ pc' = "killed"
            /\ exitCode' = 130
            /\ UNCHANGED trap
    /\ UNCHANGED <<exitErr, failed, nCmds, unitVars, connVars, clients,
                   closeCount, loopVars, taskWg, clientVars, pumps, waiters,
                   stdinPump, wcCalls, orphanPumps, fwd, lateTraps, idleFwds,
                   lateSignals, stdinEOF>>

\* sup.go:212-225: the forwarder receives a signal from the trap and calls
\* Signal on every client of the task.
FwdDeliver ==
    /\ Alive
    /\ fwd = "recv"
    /\ trap.buf > 0
    /\ trap' = [trap EXCEPT
                  !.buf = trap.buf - 1,
                  !.sent = [h \in Hosts |->
                              IF h \in Range(tasks[1])
                              THEN trap.sent[h] + 1 ELSE trap.sent[h]]]
    /\ UNCHANGED <<pc, exitCode, exitErr, failed, nCmds, unitVars, connVars,
                   clients, closeCount, loopVars, taskWg, clientVars, pumps,
                   waiters, stdinPump, wcCalls, orphanPumps, fwd, lateTraps,
                   idleFwds, lateSignals, envVars>>

\* The client lists the forwarder of an earlier task can find in the loop
\* variable `task` its closure refers to (sup.go:137, 219): the task it was
\* launched for when the variable is per iteration, and the task the loop
\* over the same command has moved on to when the variable is per loop.
LateTargets(t) ==
    {t.clients} \cup
        (IF t.cmd = cmdIdx /\ tasks # <<>> THEN {tasks[1]} ELSE {})

\* sup.go:214-224: the forwarder of an earlier task receives the signal its
\* closed trap still holds and calls Signal on every client of task.Clients.
\* live: the client had a running process when Signal was called.
FwdDeliverLate(t) ==
    /\ Alive
    /\ t \in lateTraps
    /\ lateTraps' = lateTraps \ {t}
    /\ idleFwds' = idleFwds + 1
    /\ \E cs \in LateTargets(t) :
          lateSignals' = lateSignals \cup
              {[c |-> c, live |-> proc[c] = "running"] : c \in Range(cs)}
    /\ UNCHANGED <<pc, exitCode, exitErr, failed, nCmds, unitVars, connVars,
                   clients, closeCount, loopVars, taskWg, clientVars, pumps,
                   waiters, stdinPump, wcCalls, orphanPumps, trap, fwd,
                   envVars>>

\* sup.go:214-217: a forwarder finds its trap closed and empty, and returns.
FwdReturn ==
    /\ Alive
    /\ idleFwds > 0
    /\ idleFwds' = idleFwds - 1
    /\ UNCHANGED <<pc, exitCode, exitErr, failed, nCmds, unitVars, connVars,
                   clients, closeCount, loopVars, taskWg, clientVars, pumps,
                   waiters, stdinPump, wcCalls, orphanPumps, trap, fwd,
                   lateTraps, lateSignals, envVars>>

(* ---------------------------- specification ----------------------------- *)

Next ==
    \/ Begin
    \/ SpawnConnector
    \/ \E h \in Hosts : Connector(h)
    \/ ConnJoin
    \/ NextCmd
    \/ StartClient
    \/ Helpers
    \/ \E c \in Hosts : ProcExit(c)
    \/ \E p \in pumps : PumpFinish(p)
    \/ IoJoin
    \/ \E w \in waiters : WaiterWait(w)
    \/ \E w \in waiters : WaiterFinish(w)
    \/ WaitJoin
    \/ StdinPumpFinish
    \/ OrphanPumpFinish
    \/ InputEOF
    \/ Interrupt
    \/ FwdDeliver
    \/ \E t \in lateTraps : FwdDeliverLate(t)
    \/ FwdReturn

Spec == Init /\ [][Next]_vars

\* The runs in which no command binds Input and the operator sends no
\* interrupt.
NextQuiet ==
    \/ Begin
    \/ SpawnConnector
    \/ \E h \in Hosts : Connector(h)
    \/ ConnJoin
    \/ NextCmdQuiet
    \/ StartClient
    \/ Helpers
    \/ \E c \in Hosts : ProcExit(c)
    \/ \E p \in pumps : PumpFinish(p)
    \/ IoJoin
    \/ \E w \in waiters : WaiterWait(w)
    \/ \E w \in waiters : WaiterFinish(w)
    \/ WaitJoin
    \/ FwdReturn

RunSpec == Init /\ [][NextQuiet]_vars

\* The runs in which no command binds Input: the operator sends interrupts.
NextSignal ==
    \/ Begin
    \/ SpawnConnector
    \/ \E h \in Hosts : Connector(h)
    \/ ConnJoin
    \/ NextCmdQuiet
    \/ StartClient
    \/ Helpers
    \/ \E c \in Hosts : ProcExit(c)
    \/ \E p \in pumps : PumpFinish(p)
    \/ IoJoin
    \/ \E w \in waiters : WaiterWait(w)
    \/ \E w \in waiters : WaiterFinish(w)
    \/ WaitJoin
    \/ Interrupt
    \/ FwdDeliver
    \/ \E t \in lateTraps : FwdDeliverLate(t)
    \/ FwdReturn

SignalSpec == Init /\ [][NextSignal]_vars

(* ------------------------ the client on its own ------------------------ *)

\* The variables of a run of Stackup.Run other than the clients' own.
runVars == <<pc, exitCode, exitErr, failed, nCmds, connVars, clients,
             closeCount, loopVars, taskWg, pumps, waiters, stdinPump, wcCalls,
             orphanPumps, sigVars, envVars>>

\* Run is called on the client of host c, in whatever state it is.
CallRun(c) ==
    /\ \E how \in RunOutcomes :
          /\ Run(c, how)
          /\ ret' = [op |-> "Run", c |-> c, err |-> RunError(c, how)]
    /\ UNCHANGED <<runVars, prefixVars, argVars>>

\* Wait is called on the client of host c, and returns: at once on a client
\* that is not running, and when the process has ended otherwise.
CallWait(c) ==
    /\ running[c] => proc[c] = "exited"
    /\ \E r \in WaitResults("local") :
          /\ Wait(c, r)
          /\ ret' = [op |-> "Wait", c |-> c, err |-> WaitError(c, r)]
    /\ UNCHANGED <<runVars, prefixVars, argVars>>

\* The clients before any run: nothing but the calls below touches them.
InitClient == Init /\ nCmds = 0

NextClient ==
    \/ \E c \in Hosts : CallRun(c)
    \/ \E c \in Hosts : CallWait(c)
    \/ \E c \in Hosts : ProcExit(c)

ClientSpec == InitClient /\ [][NextClient]_vars

(* ----------------------------- the prefixes ---------------------------- *)

\* localhost.go:100-103: Prefix() returns the label with a colour escape
\* in front, and the length of the label alone.
Labels == {Str(0, e, n) : e \in 1..MaxEsc, n \in 1..MaxLabel}

\* len(s) of a Go string.
StrLen(s) == s.pad + s.esc + s.len

\* The width of s on the terminal.
Width(s) == s.pad + s.len

RECURSIVE MaxPrefixLen(_, _)
\* sup.go:109-117: the largest prefixLen of the clients cs, from acc on.
MaxPrefixLen(cs, acc) ==
    IF cs = <<>> THEN acc
    ELSE MaxPrefixLen(Tail(cs),
                      IF labels[Head(cs)].len > acc
                      THEN labels[Head(cs)].len ELSE acc)

\* sup.go:109-120: the loop that drains clientCh computes maxLen.
DrainClients ==
    /\ maxLen = 0
    /\ maxLen' = MaxPrefixLen([i \in 1..NumHosts |-> i], 0)
    /\ UNCHANGED <<runVars, clientVars, ret, argVars, labels, prefixes>>

\* sup.go:150-155 (and 244-248): the prefix of a client's lines.  wide:
\* the test that decides whether the prefix is left as Prefix() gave it.
PadPrefixIf(h, wide) ==
    /\ maxLen > 0
    /\ prefixes[h] = Str(0, 0, 0)
    /\ prefixes' = [prefixes EXCEPT ![h] =
                       IF wide
                       THEN labels[h]
                       ELSE [labels[h] EXCEPT
                                !.pad = maxLen - labels[h].len]]
    /\ UNCHANGED <<runVars, clientVars, ret, argVars, labels, maxLen>>

PadPrefix(h) == PadPrefixIf(h, ~(StrLen(labels[h]) < maxLen))

\* The clients of a run, each with the prefix its Prefix() returns.
InitPrefix ==
    /\ InitRun /\ nCmds = 0
    /\ NoCall /\ NoArgs
    /\ labels \in [Hosts -> Labels]
    /\ maxLen = 0
    /\ prefixes = [h \in Hosts |-> Str(0, 0, 0)]

NextPrefix ==
    \/ DrainClients
    \/ \E h \in Hosts : PadPrefix(h)

PrefixSpec == InitPrefix /\ [][NextPrefix]_vars

(* ------------------------------ parseArgs ------------------------------- *)

\* The names a Supfile gives to commands and targets, and the operator to
\* the COMMAND arguments.
Names == {"a", "b"}

\* The sequences over S of 1 to n elements.
SeqsUpTo(S, n) == UNION {[1..k -> S] : k \in 1..n}

\* conf.Targets: some names, each with the names of its commands.
Targets == UNION {[D -> SeqsUpTo(Names, MaxTarget)] : D \in SUBSET Names}

RECURSIVE FirstUnknown(_)
\* main.go:121-126: the first name of the target that is no command, ""
\* when there is none.
FirstUnknown(body) ==
    IF body = <<>> THEN ""
    ELSE IF Head(body) \notin conf.commands THEN Head(body)
    ELSE FirstUnknown(Tail(body))

\* main.go:116-143: one iteration of the loop over args[1:].  The name is
\* looked up in the targets, and every command of the target is appended;
\* then it is looked up in the commands, and the command is appended; a name
\* found in neither, or a target naming an unknown command, ends parseArgs
\* with an error and without a list.
ParseArg ==
    /\ args # <<>>
    /\ parseErr = ""
    /\ LET name == Head(args)
           isTarget == name \in DOMAIN conf.targets
           isCommand == name \in conf.commands
           target == IF isTarget THEN conf.targets[name] ELSE <<>>
       IN  IF FirstUnknown(target) # ""
           THEN /\ parseErr' = FirstUnknown(target)
                /\ parsed' = <<>>
                /\ UNCHANGED args
           ELSE IF ~isTarget /\ ~isCommand
           THEN /\ parseErr' = name
                /\ parsed' = <<>>
                /\ UNCHANGED args
           ELSE /\ parsed' = parsed \o target \o
                                 (IF isCommand THEN <<name>> ELSE <<>>)
                /\ args' = Tail(args)
                /\ UNCHANGED parseErr
    /\ UNCHANGED <<runVars, clientVars, ret, prefixVars, conf>>

\* A Supfile and the COMMAND arguments of an invocation.
InitArgs ==
    /\ InitRun /\ nCmds = 0
    /\ NoCall /\ NoPrefix
    /\ conf \in [commands : SUBSET Names, targets : Targets]
    /\ args \in SeqsUpTo(Names, MaxArgs)
    /\ parsed = <<>>
    /\ parseErr = ""

NextArgs == ParseArg

ArgsSpec == InitArgs /\ [][NextArgs]_vars

\* A client process whose stdin has been closed ends.
ProcExitOnClose(c) == stdin[c] = "closed" /\ ProcExit(c)

\* The runs in which the operator sends no interrupt.
NextNoSignal ==
    \/ Begin
    \/ SpawnConnector
    \/ \E h \in Hosts : Connector(h)
    \/ ConnJoin
    \/ NextCmd
    \/ StartClient
    \/ Helpers
    \/ \E c \in Hosts : ProcExit(c)
    \/ \E p \in pumps : PumpFinish(p)
    \/ IoJoin
    \/ \E w \in waiters : WaiterWait(w)
    \/ \E w \in waiters : WaiterFinish(w)
    \/ WaitJoin
    \/ StdinPumpFinish
    \/ OrphanPumpFinish
    \/ InputEOF
    \/ FwdReturn

\* The Go scheduler runs every goroutine that can take a step: the stdin
\* pump leaves io.Copy once the input is at EOF, an output pump returns at
\* the EOF of its stream, the run loop passes a join that is open, a waiter
\* returns from Wait once the process has ended.  The client processes are
\* taken to end once their stdin is closed.
LiveSpec ==
    /\ Init
    /\ [][NextNoSignal]_vars
    /\ WF_vars(StdinPumpFinish)
    /\ \A c \in Hosts : WF_vars(ProcExitOnClose(c))
    /\ WF_vars(\E p \in pumps : PumpFinish(p))
    /\ WF_vars(IoJoin)
    /\ WF_vars(\E w \in waiters : WaiterWait(w))
    /\ WF_vars(\E w \in waiters : WaiterFinish(w))

(* ------------------------------- properties ----------------------------- *)

\* The run loop is inside a task (sup.go:138-270).
InTask == pc \in {"start", "helpers", "ioJoin", "waitJoin"}

\* Stackup.Run has returned nil: every command was taken and every task
\* was joined.
RunSucceeded == pc = "done" /\ nCmds > 0 /\ cmdIdx = nCmds /\ tasks = <<>>

\* Every connector has been launched and has finished.
ConnectorsDone ==
    /\ launched = NumHosts
    /\ \A h \in Hosts : conn[h] \in {"ok", "failed"}

\* C1: when a waiter ends the controller for a Wait error, the controller's
\* exit status is the status the error carries if the process ended with a
\* non-zero status (local or remote client alike; the suppressed status
\* aside), and 1 if the error carries none; a run that succeeds exits 0.
ExitStatusIsClientStatus ==
    /\ pc = "exited" /\ exitErr.status # SuppressedStatus =>
          exitCode = (IF FailingExit(exitErr) THEN exitErr.status ELSE 1)
    /\ RunSucceeded => exitCode = 0

\* C2: a Wait that returns the exit error of status 15 does not make the
\* waiter end the controller process.
SuppressedStatusIsNoError ==
    ~(/\ pc = "exited"
      /\ exitErr.type = "ssh.ExitError"
      /\ exitErr.status = SuppressedStatus)

\* C3: once some client's Wait has returned a failing exit, no step starts
\* a process on any client (no Run succeeds) ever after.
FailFast ==
    [][failed => \A c \in Hosts : proc'[c] = "running" => proc[c] = "running"]_vars

\* A waiter has ended the controller for a failing exit while another task
\* or another command was still to come.
FailFastWitness ==
    /\ pc = "exited"
    /\ FailingExit(exitErr)
    /\ Len(tasks) > 1 \/ cmdIdx < nCmds

\* C4: one connector is launched per host, and while the run loop is in a
\* task or any client has been given a process, every connector has
\* finished.
ConnectBarrier ==
    (InTask \/ \E c \in Hosts : proc[c] # "none") => ConnectorsDone

\* A client runs a task, and the connector of a later host finished first.
ConnectBarrierWitness ==
    /\ InTask
    /\ \E c \in Hosts : proc[c] = "running"
    /\ Len(clients) = NumHosts
    /\ clients[1] # 1

\* C5: when the bastion connect or a host's connector has failed, the run
\* loop never reaches the commands: no task is built, no client is given
\* a process, and Stackup.Run, once it has returned, has returned an error.
ConnectFailureAborts ==
    (bastion = "failed" \/ \E h \in Hosts : conn[h] = "failed") =>
        /\ pc \notin {"nextCmd", "start", "helpers", "ioJoin", "waitJoin"}
        /\ cmdIdx = 0 /\ tasks = <<>>
        /\ \A c \in Hosts : proc[c] = "none" /\ ~running[c]
        /\ pc = "done" => exitCode = 1

\* Stackup.Run has returned after one host connected and another failed.
ConnectFailureWitness ==
    /\ pc = "done"
    /\ \E h \in Hosts : conn[h] = "ok"
    /\ \E h \in Hosts : conn[h] = "failed"

\* C6: when the run has ended, by a return of Stackup.Run or by a waiter's
\* os.Exit, one connect was made per host and every remote client that
\* connected has been closed exactly once.
ClosedExactlyOnce ==
    pc \in {"done", "exited"} /\ bastion = "ready" =>
        /\ ConnectorsDone
        /\ \A h \in Hosts : conn[h] = "ok" /\ kind[h] = "ssh" => closeCount[h] = 1

\* C7: while a waiter of the current task lives, Run has been called on
\* every client of the task; and no waiter of an earlier task lives once
\* the run loop has moved on to the next task.
RunBeforeWaitBeforeNextTask ==
    \A w \in waiters :
        /\ w.cur
        /\ Range(tasks[1]) \subseteq Range(writers)
        /\ \A c \in Range(tasks[1]) : proc[c] # "none"

\* A waiter has returned from Wait in a task over all hosts that is not the
\* first task of the run.
RunBeforeWaitWitness ==
    /\ \E w \in waiters : w.st = "returned"
    /\ cmdIdx > 1
    /\ Len(tasks[1]) = NumHosts

\* C8: no stdout or stderr pump lives while a waiter lives, and none
\* outlives its task.
PumpsJoinedBeforeWaiters ==
    /\ waiters # {} => pumps = {}
    /\ \A p \in pumps : p.cur

\* The waiters of a task over all hosts have been started.
PumpsJoinedWitness ==
    /\ pc = "waitJoin"
    /\ Cardinality(waiters) = NumHosts
    /\ \A w \in waiters : w.st = "waiting"

\* C9: once a client of the current task has been started, nothing the run
\* loop launched for an earlier task still runs: no output pump, stdin
\* pump, signal forwarder or waiter.
NoActivityOutlivesItsTask ==
    InTask /\ writers # <<>> =>
        /\ orphanPumps = 0
        /\ idleFwds = 0 /\ lateTraps = {}
        /\ \A p \in pumps : p.cur
        /\ \A w \in waiters : w.cur

\* C10: in a task with Input, when a waiter has returned from Wait the
\* stdin pump has drained the input and closed the clients' stdin.
StdinClosedBeforeWaitReturns ==
    \A w \in waiters :
        w.cur /\ w.st = "returned" /\ input => stdinPump = "drained"

\* The stdin pump of the current task has been launched and the input is at
\* EOF.
InputAtEOF == pc \in {"ioJoin", "waitJoin"} /\ input /\ stdinEOF

\* Every client of the current task has its stdin closed and no waiter of
\* the task is still in Wait.
TaskReleased ==
    /\ pc = "waitJoin"
    /\ \A c \in Range(tasks[1]) : stdin[c] = "closed"
    /\ \A w \in waiters : w.st # "waiting"

\* C11: in a task with Input, once the input is at EOF the stdin of every
\* client of the task is eventually closed and every waiter of the task
\* eventually returns from Wait (or a waiter ends the controller for a Wait
\* error), given that a process ends once its stdin is closed.
EOFReleasesTask == InputAtEOF ~> (TaskReleased \/ pc = "exited")


\* C12: while the trap of the current task is registered, every interrupt
\* that arrived since it was registered is held by the trap or has been
\* passed to Signal on every client of the task: none is lost.
InterruptsForwarded ==
    trap.notify =>
        \A c \in Range(tasks[1]) : trap.sent[c] + trap.buf = trap.caught

\* C13: the trap is registered exactly while the run loop is between the
\* launch of a task's forwarder and the join on its waiters, and no
\* forwarder calls Signal on a client once its task has been joined.
NoLateSignal ==
    /\ Alive => (trap.notify <=> pc \in {"ioJoin", "waitJoin"})
    /\ lateSignals = {}

\* Stackup.Run has returned from inside the loop over task.Clients
\* (sup.go:157-160): Run has failed on the client the loop was at.
StartFailed == pc = "done" /\ tasks # <<>>

\* C14: when Run has failed on a client, Stackup.Run has returned an error,
\* the clients that follow in the task have not been started, and no
\* output pump of the clients started before is left running.
StartFailureAborts ==
    StartFailed =>
        /\ exitCode = 1
        /\ \A i \in (startIdx + 1)..Len(tasks[1]) :
              tasks[1][i] \notin Range(writers)
        /\ pumps = {}

\* C15: Run on a client whose running flag is set returns the
\* already-running error and changes nothing of the client (flag, process,
\* stdin endpoint); on a client that is not running, it returns nil exactly
\* when it has started the process, and the flag is set exactly then.  No
\* other client is touched.
RunContract ==
    [][\A c \in Hosts : CallRun(c) =>
          /\ IF running[c]
             THEN /\ ret'.err = ErrAlreadyRunning
                  /\ UNCHANGED clientVars
             ELSE /\ running'[c] <=> ret'.err = Nil
                  /\ running'[c] <=> proc'[c] = "running"
                  /\ running'[c] => stdin'[c] = "open"
          /\ \A d \in Hosts \ {c} :
                /\ running'[d] = running[d]
                /\ proc'[d] = proc[d]
                /\ stdin'[d] = stdin[d]]_vars

\* Run has been called on a client that was running, and has been refused.
RunContractWitness ==
    /\ ret.op = "Run"
    /\ ret.err = ErrAlreadyRunning
    /\ running[ret.c]

\* C16: Wait on a running client returns the exit result of its process,
\* nil or an exit error, and clears the running flag in both cases, so that
\* the next Run is not refused; Wait on a client that is not running
\* returns an error and the flag stays cleared.
WaitContract ==
    [][\A c \in Hosts : CallWait(c) =>
          /\ ~running'[c]
          /\ IF running[c]
             THEN ret'.err \in WaitResults("local")
             ELSE ret'.err = ErrStopped /\ UNCHANGED clientVars]_vars

\* Wait has returned an exit error of the process, and the flag is cleared.
WaitContractWitness ==
    /\ ret.op = "Wait"
    /\ ret.err.type = "exec.ExitError"
    /\ ~running[ret.c]

\* C17: the prefix of a client's lines is the client's prefix with exactly
\* maxLen minus its printable length spaces in front, so that it is maxLen
\* wide on the terminal, whatever the length of its colour escape.
PrefixesAligned ==
    \A h \in Hosts :
        prefixes[h] # Str(0, 0, 0) =>
            /\ prefixes[h].pad = maxLen - labels[h].len
            /\ Width(prefixes[h]) = maxLen

\* The hosts of s follow each other as in the network (net.Hosts).
HostOrdered(s) == \A i, j \in 1..Len(s) : i < j => s[i] < s[j]

\* C18: the client list is in the host order of the network, whatever the
\* order in which the connectors finished; so every task of a command with
\* once set has the client of the first host as its only client, and the
\* clients of a task are started in host order.
ClientsInHostOrder ==
    Len(clients) = NumHosts =>
        /\ HostOrdered(clients)
        /\ \A cmd \in Commands :
              cmd.once =>
                  \A t \in Range(createTasks(cmd, clients)) : t = <<1>>
        /\ HostOrdered(writers)

\* C19: parseArgs takes each argument as a command when there is a command
\* of that name and appends that command alone; otherwise as a target when
\* there is one, and appends the target's commands in the target's order;
\* otherwise it fails for the name and returns no list.
ArgsResolved ==
    [][ParseArg =>
          LET name == Head(args)
          IN  IF name \in conf.commands
              THEN parseErr' = "" /\ parsed' = parsed \o <<name>>
              ELSE IF name \in DOMAIN conf.targets
              THEN FirstUnknown(conf.targets[name]) = "" =>
                       parseErr' = "" /\ parsed' = parsed \o conf.targets[name]
              ELSE parseErr' = name /\ parsed' = <<>>]_vars

\* C20: the stdin pump of a task calls WriteClose only on the clients that
\* were started for the task, whose stdin writer it was given.
WriteCloseOnlyOnTask == wcCalls \subseteq Range(writers)

\* C21: when the run loop starts a task, no client of the task has its
\* running flag set, and while it starts the clients of the task those
\* still to be started have it cleared: the Run the loop is about to call
\* is never refused as already running.
ClientsIdleAtTaskStart ==
    pc = "start" =>
        \A i \in (startIdx + 1)..Len(tasks[1]) : ~running[tasks[1][i]]

\* The run loop is about to start a task of a later command on a client
\* that has run a task before.
ClientsIdleWitness ==
    /\ pc = "start"
    /\ startIdx = 0
    /\ cmdIdx > 1
    /\ proc[tasks[1][1]] = "exited"
=============================================================================
